---- MODULE Spec2Model ----
(***************************************************************************)
(* The crawl orchestration of scraper.py: main() with its two modes, the   *)
(* listing walker scrape_search_results(), the detail worker               *)
(* fetch_profile_details() run by a ThreadPoolExecutor, the three retry    *)
(* loops, and the SQLite collaborator functions.                           *)
(*                                                                         *)
(* The network and the upstream site are the environment: every           *)
(* session.get() draws its outcome ("ok", a requests RequestException, or  *)
(* another exception) and, when it succeeds, the content of the page.      *)
(***************************************************************************)
EXTENDS Integers, Sequences, FiniteSets, TLC

\* ---------------------------------------------------------------- constants
MAX_RETRIES == 3
RETRY_DELAY_SECONDS == 10
MAX_WORKERS == 8
PAGE_DELAY_SECONDS == 1

\* ------------------------------------------------------------------- bounds
MaxId == 2          \* record ids are 1..MaxId
MaxPages == 2       \* the pagination control names at most this many pages
MaxBlocks == 2      \* announcements on one listing page
ListedPages == 3    \* pages of the listing whose walk is followed page by page

\* ------------------------------------------------------------ text and data
\* Python's None.
None == "<None>"

\* The decimal text of the numbers 0..5, as it appears in markup.
Numeral == <<"0", "1", "2", "3", "4", "5">>

Text(n) == Numeral[n + 1]

\* str.isdigit() on the texts the model uses.
isdigit(s) == \E n \in 0..(Len(Numeral) - 1) : Numeral[n + 1] = s

\* int() on a digit text.
int(s) == CHOOSE n \in 0..(Len(Numeral) - 1) : Numeral[n + 1] = s

\* str.strip() on the names the model uses.
strip(s) == IF s = " Ana " THEN "Ana" ELSE IF s = " Bia" THEN "Bia" ELSE s

Paths == <<"/ana", "/bia", "/caio", "/dora", "/eva", "/fabio", "/gil", "/hugo",
           "/ines", "/joao", "/katia", "/leo">>

Url(k) == Paths[k]

Ids == 1..MaxId

\* Python truthiness of an attribute value (None and "" are falsy).
Truthy(v) == v # None /\ v # ""

\* The attributes of one <calendar-availability-app> element.
IdAttrs == {Text(i) : i \in Ids} \cup {None}
NameAttrs == {" Ana "}
UrlAttrs == {None, "", Url(1), Url(2)}
Blocks == [result_id : IdAttrs, result_name : NameAttrs, url : UrlAttrs]

\* The labels of the page links of the pagination control.
Labels == {"next"} \cup {Text(n) : n \in 0..MaxPages}
NoPager == [present |-> FALSE, labels |-> {}]
Pagers == {NoPager} \cup {[present |-> TRUE, labels |-> L] : L \in SUBSET Labels}

\* Sum of a sequence of numbers.
RECURSIVE Sum(_)
Sum(s) == IF s = <<>> THEN 0 ELSE Head(s) + Sum(Tail(s))

\* The elements of a sequence.
Range(s) == {s[k] : k \in DOMAIN s}

\* dict.update(): the entries of d overridden and extended by those of f.
Update(d, f) ==
    [k \in DOMAIN d \cup DOMAIN f |-> IF k \in DOMAIN f THEN f[k] ELSE d[k]]

\* ------------------------------------------------------------------ storage
\* A row of the doctors table (scraped_at, stamped by the engine, left out).
Row(id, name, url, phone, spec, addr) ==
    [id |-> id, name |-> name, profile_url |-> url,
     phone |-> phone, specialization |-> spec, address |-> addr]

\* A row stored by an earlier run for id i.
StoredRow(i) == Row(i, "Old", Url(i), "(11) 2222-3333", "Pediatra", "Rua Velha 1")

\* The tables a run can start from: the rows of ids 1..k for some k.
Tables == {{StoredRow(i) : i \in 1..k} : k \in 0..MaxId}

RowIds(table) == {r.id : r \in table}

\* The rows of a table in ascending id order (the order of a rowid scan).
RECURSIVE RowsInOrder(_)
RowsInOrder(table) ==
    IF table = {} THEN <<>>
    ELSE LET r == CHOOSE x \in table : \A y \in table : x.id <= y.id
         IN <<r>> \o RowsInOrder(table \ {r})

\* doc.setdefault(...) for the three optional columns.
WithDefaults(doc) ==
    Update([phone |-> None, specialization |-> None, address |-> None], doc)

\* An upsert that keeps a stored value where the new one is NULL.
InsertOrReplace_KeepOld(table, doc) ==
    LET old == {r \in table : r.id = doc.id}
        kept == IF old = {} THEN doc
                ELSE LET o == CHOOSE r \in old : TRUE
                     IN [f \in DOMAIN doc |->
                           IF f \in {"phone", "specialization", "address"}
                              /\ doc[f] = None
                           THEN o[f] ELSE doc[f]]
    IN {r \in table : r.id # doc.id /\ r.profile_url # doc.profile_url} \cup {kept}

\* INSERT OR REPLACE of one row: rows in conflict on the primary key id or on
\* the UNIQUE profile_url are deleted, then the row is inserted.
InsertOrReplace(table, doc) ==
    {r \in table : r.id # doc.id /\ r.profile_url # doc.profile_url} \cup {doc}

\* executemany over the batch, in list order.
RECURSIVE ExecuteMany(_, _)
ExecuteMany(table, docs) ==
    IF docs = <<>> THEN table
    ELSE ExecuteMany(InsertOrReplace(table, WithDefaults(Head(docs))), Tail(docs))

\* ------------------------------------------------------------------ parsing
\* A page count that counts the numeric labels.
get_total_pages_Count(pager) ==
    IF ~pager.present THEN 1
    ELSE LET page_numbers == {int(l) : l \in {x \in pager.labels : isdigit(x)}}
         IN IF page_numbers = {} THEN 1 ELSE Cardinality(page_numbers)

\* get_total_pages(): the largest numeric label, 1 without control or numbers.
get_total_pages(pager) ==
    IF ~pager.present THEN 1
    ELSE LET page_numbers == {int(l) : l \in {x \in pager.labels : isdigit(x)}}
         IN IF page_numbers = {} THEN 1
            ELSE CHOOSE m \in page_numbers : \A n \in page_numbers : n <= m

\* int(block.get('result-id')) raises for a missing or non-numeric attribute.
IdParses(block) == isdigit(block.result_id)

\* The dictionary built for one announcement (lines 233-237).
DoctorInfo(block) ==
    [id |-> int(block.result_id),
     name |-> strip(IF block.result_name = None THEN "N/A" ELSE block.result_name),
     profile_url |-> block.url]

\* An extraction that forgets to add the emitted id to existing_ids.
ExtractBlock_NoAdd(block, existing, todo) ==
    LET info == DoctorInfo(block) IN
    IF info.id \in existing THEN [existing_ids |-> existing, doctors |-> todo]
    ELSE IF Truthy(info.profile_url)
         THEN [existing_ids |-> existing, doctors |-> Append(todo, info)]
         ELSE [existing_ids |-> existing, doctors |-> todo]

\* An extraction that emits a stub whether or not it has a profile reference.
ExtractBlock_NoUrlCheck(block, existing, todo) ==
    LET info == DoctorInfo(block) IN
    IF info.id \in existing THEN [existing_ids |-> existing, doctors |-> todo]
    ELSE [existing_ids |-> existing \cup {info.id}, doctors |-> Append(todo, info)]

\* One iteration of the extraction loop (lines 228-241): the stub is appended
\* to doctors_to_process and its id added to existing_ids when the id is not
\* in existing_ids and the profile reference is not empty.
ExtractBlock(block, existing, todo) ==
    LET info == DoctorInfo(block) IN
    IF info.id \in existing THEN [existing_ids |-> existing, doctors |-> todo]
    ELSE IF Truthy(info.profile_url)
         THEN [existing_ids |-> existing \cup {info.id}, doctors |-> Append(todo, info)]
         ELSE [existing_ids |-> existing, doctors |-> todo]

\* The content of a profile page, as the extraction rules see it: the link
\* texts of the specialization span, the matches of the phone pattern in the
\* raw text, and the text parts of each streetAddress span.
PhoneOrder == <<"(11) 3456-7890", "(11) 98765-4321">>

RichBody ==
    [spec_links |-> <<" Cardiologista ", "Clinico">>,
     phones |-> <<PhoneOrder[2], PhoneOrder[1], PhoneOrder[2]>>,
     address_blocks |-> << <<"Rua A", "100">>, <<"Av B">> >>]

BareBody == [spec_links |-> <<>>, phones |-> <<>>, address_blocks |-> <<>>]

DetailBodies == {RichBody, BareBody}

\* Where the parsing of a profile page raises, if it does.
Faults == {"none", "soup", "addresses"}

\* sep.join(parts)
RECURSIVE Join(_, _)
Join(parts, sep) ==
    IF parts = <<>> THEN ""
    ELSE IF Len(parts) = 1 THEN parts[1]
    ELSE parts[1] \o sep \o Join(Tail(parts), sep)

\* sorted(list(set(found))) for the phone texts of PhoneOrder.
SortedSet(found) ==
    LET keep == {k \in DOMAIN PhoneOrder : PhoneOrder[k] \in Range(found)}
        Pick[k \in 0..Len(PhoneOrder)] ==
            IF k = 0 THEN <<>>
            ELSE IF k \in keep THEN Append(Pick[k - 1], PhoneOrder[k]) ELSE Pick[k - 1]
    IN Pick[Len(PhoneOrder)]

\* get_text(strip=True) on the texts the model uses.
get_text(s) == IF s = " Cardiologista " THEN "Cardiologista" ELSE s

\* The three fields fetch_profile_details() holds after the parsing block
\* (lines 270-299): a field set before the fault keeps its value, the others
\* stay None.
ParseProfile(body, fault) ==
    LET specialization ==
            IF fault = "soup" \/ body.spec_links = <<>> THEN None
            ELSE get_text(body.spec_links[1])
        phone ==
            IF fault = "soup" \/ body.phones = <<>> THEN None
            ELSE Join(SortedSet(body.phones), ", ")
        address ==
            IF fault \in {"soup", "addresses"} \/ body.address_blocks = <<>>
            THEN None
            ELSE Join([k \in DOMAIN body.address_blocks |->
                          Join(body.address_blocks[k], " ")], "; ")
    IN [phone |-> phone, specialization |-> specialization, address |-> address]

\* The fields after retry exhaustion: response is None, nothing is parsed.
Degraded == [phone |-> None, specialization |-> None, address |-> None]

\* ------------------------------------------------------------------ network
\* The outcome of one session.get() followed by raise_for_status(): success,
\* an error status, a connection error or timeout, or an exception that is no
\* requests RequestException.
Outcomes == {"ok", "status", "network", "other"}

IsRequestException(o) == o \in {"status", "network"}

\* One entry of a retry loop's history: a sleep of arg seconds, or a GET of
\* listing page arg (of profile id arg in a detail worker).
Slept(secs) == [op |-> "sleep", arg |-> secs]
Got(what) == [op |-> "get", arg |-> what]

\* A backoff that does not grow with the attempt number.
Backoff_Constant(attempt) == RETRY_DELAY_SECONDS

\* The delay before attempt number attempt (lines 181, 209, 259).
Backoff(attempt) == RETRY_DELAY_SECONDS * attempt

\* A loop that makes one pass more, as range(MAX_RETRIES + 2) would.
GivesUp_Late(attempt) == attempt = MAX_RETRIES + 1

\* A loop that gives up one pass early, as range(MAX_RETRIES) would.
GivesUp_Early(attempt) == attempt = MAX_RETRIES - 1

\* The pass on which a RequestException ends the loop (lines 188, 216, 266).
GivesUp(attempt) == attempt = MAX_RETRIES

\* ---------------------------------------------------------------- the state
VARIABLES
    mode,                \* args.mode
    run,                 \* 1 for the first run, 2 for a run started after it
    pc,                  \* the position of main()
    db,                  \* the rows of the doctors table
    listing,             \* the upstream listing: frozen contents, or live
    existing_ids,        \* the set get_existing_ids() returned, as mutated
    known_ids,           \* the set get_existing_ids() returned, as loaded
    db0,                 \* the rows of the table when the run started
    doctors_to_process,  \* the walker's result list
    walk,                \* the frame of scrape_search_results()
    profiles_to_process, \* the work list of main()
    tasks,               \* one future per submitted entry of the work list
    completed_doctors,   \* the records collected from the futures
    saves,               \* calls of save_to_database() that reached the table
    warmups,             \* warm-up requests sent
    fatal,               \* the first search page failed on every attempt
    crash                \* where an exception left main(), "" if none did

vars == <<mode, run, pc, db, listing, existing_ids, known_ids, db0,
          doctors_to_process, walk, profiles_to_process, tasks,
          completed_doctors, saves, warmups, fatal, crash>>

\* No frame of scrape_search_results() exists.
NoWalk ==
    [page_num |-> 0, total_pages |-> 0, attempt |-> 0, seen |-> 0,
     log |-> <<>>, before |-> <<>>, announced |-> {}, repeated |-> {},
     skipped |-> {}]

\* The upstream serves whatever it likes on each request.
Live == [fixed |-> FALSE, pager |-> NoPager, pages |-> <<>>]

\* The announcements that can follow the first seen ones on listing page p.
NextBlocks(p, seen) ==
    IF listing.fixed
    THEN IF seen < Len(listing.pages[p]) THEN {listing.pages[p][seen + 1]} ELSE {}
    ELSE IF seen < MaxBlocks THEN Blocks ELSE {}

\* Listing page p can end after the first seen announcements.
PageEnds(p, seen) == listing.fixed => seen = Len(listing.pages[p])

\* The pagination control the upstream can serve on page 1.
ServedPagers == IF listing.fixed THEN {listing.pager} ELSE Pagers

\* The memory of a run before main() has done anything.
FreshRun ==
    /\ pc' = "setup"
    /\ existing_ids' = {}
    /\ known_ids' = {}
    /\ doctors_to_process' = <<>>
    /\ walk' = NoWalk
    /\ profiles_to_process' = <<>>
    /\ tasks' = <<>>
    /\ completed_doctors' = <<>>
    /\ saves' = 0
    /\ warmups' = 0
    /\ fatal' = FALSE
    /\ crash' = ""

Init ==
    /\ mode \in {"new", "update"}
    /\ run = 1
    /\ pc = "setup"
    /\ db \in Tables
    /\ db0 = db
    /\ listing = Live
    /\ existing_ids = {}
    /\ known_ids = {}
    /\ doctors_to_process = <<>>
    /\ walk = NoWalk
    /\ profiles_to_process = <<>>
    /\ tasks = <<>>
    /\ completed_doctors = <<>>
    /\ saves = 0
    /\ warmups = 0
    /\ fatal = FALSE
    /\ crash = ""

\* An exception leaves main(): the run is over.
Crash(where) ==
    /\ pc' = "crashed"
    /\ crash' = where

\* ------------------------------------------------------------------- main()
\* setup_database(): creates the table if missing; a sqlite3.Error is raised
\* again and leaves main().
SetupDatabase ==
    /\ pc = "setup"
    /\ \E error \in BOOLEAN :
         IF error THEN Crash("setup") ELSE pc' = "warmup" /\ crash' = crash
    /\ UNCHANGED <<mode, run, db, listing, existing_ids, known_ids, db0,
                   doctors_to_process, walk, profiles_to_process, tasks,
                   completed_doctors, saves, warmups, fatal>>

\* session.get(BASE_URL); time.sleep(1): no status check, no handler.
WarmUp ==
    /\ pc = "warmup"
    /\ warmups' = warmups + 1
    /\ \E outcome \in Outcomes :
         IF outcome \in {"network", "other"} THEN Crash("warmup")
         ELSE pc' = "load" /\ crash' = crash
    /\ UNCHANGED <<mode, run, db, listing, existing_ids, known_ids, db0,
                   doctors_to_process, walk, profiles_to_process, tasks,
                   completed_doctors, saves, fatal>>

\* A load that misses the stored row of id 1.
get_existing_ids_Partial(table, error) ==
    IF error THEN {} ELSE RowIds(table) \ {1}

\* get_existing_ids(): the stored ids, or the empty set on a sqlite3.Error.
get_existing_ids(table, error) == IF error THEN {} ELSE RowIds(table)

\* A load that loses the first row of the result.
get_all_profiles_from_db_SkipFirst(table, error) ==
    IF error \/ table = {} THEN <<>>
    ELSE LET rows == Tail(RowsInOrder(table))
         IN [k \in DOMAIN rows |->
               [id |-> rows[k].id, name |-> rows[k].name,
                profile_url |-> rows[k].profile_url]]

\* get_all_profiles_from_db(): id, name and profile_url of every row, or the
\* empty list on a sqlite3.Error.
get_all_profiles_from_db(table, error) ==
    IF error THEN <<>>
    ELSE LET rows == RowsInOrder(table)
         IN [k \in DOMAIN rows |->
               [id |-> rows[k].id, name |-> rows[k].name,
                profile_url |-> rows[k].profile_url]]

\* A load whose sqlite3.Error is raised again, as in setup_database().
LoadNew_Abort ==
    /\ pc = "load"
    /\ mode = "new"
    /\ \E error \in BOOLEAN :
         IF error
         THEN /\ Crash("load")
              /\ UNCHANGED <<existing_ids, known_ids, walk, doctors_to_process>>
         ELSE /\ existing_ids' = get_existing_ids(db, FALSE)
              /\ known_ids' = get_existing_ids(db, FALSE)
              /\ walk' = NoWalk
              /\ doctors_to_process' = <<>>
              /\ pc' = "first"
              /\ UNCHANGED crash
    /\ UNCHANGED <<mode, run, db, listing, db0, profiles_to_process, tasks,
                   completed_doctors, saves, warmups, fatal>>

\* mode 'new': load the known ids and enter scrape_search_results().
LoadNew ==
    /\ pc = "load"
    /\ mode = "new"
    /\ \E error \in BOOLEAN :
         /\ existing_ids' = get_existing_ids(db, error)
         /\ known_ids' = get_existing_ids(db, error)
    /\ walk' = NoWalk
    /\ doctors_to_process' = <<>>
    /\ pc' = "first"
    /\ UNCHANGED <<mode, run, db, listing, db0, profiles_to_process, tasks,
                   completed_doctors, saves, warmups, fatal, crash>>

\* mode 'update': the stored profiles are the work list.
LoadUpdate ==
    /\ pc = "load"
    /\ mode = "update"
    /\ \E error \in BOOLEAN :
         profiles_to_process' = get_all_profiles_from_db(db, error)
    /\ pc' = "check"
    /\ UNCHANGED <<mode, run, db, listing, existing_ids, known_ids, db0,
                   doctors_to_process, walk, tasks, completed_doctors, saves,
                   warmups, fatal, crash>>

\* -------------------------------------------------- scrape_search_results()
\* What one pass of a retry loop appends to the history: the backoff sleep
\* when it is a retry, then the request.
Pass(attempt, what) ==
    (IF attempt > 0 THEN <<Slept(Backoff(attempt))>> ELSE <<>>) \o <<Got(what)>>

\* A first-page failure handled like that of a later page: the page is
\* skipped and the walk goes on.
FirstPageFailed_Skip(log) ==
    /\ walk' = [walk EXCEPT !.log = <<>>, !.before = log, !.attempt = 0,
                            !.total_pages = MaxPages, !.page_num = 2]
    /\ fatal' = TRUE
    /\ pc' = "walk"
    /\ UNCHANGED <<profiles_to_process, crash>>

\* The first page failed on the last pass (lines 188-190): the walker returns
\* the empty list to main(). The history of the loop is kept.
FirstPageFailed(log) ==
    /\ walk' = [walk EXCEPT !.log = log]
    /\ profiles_to_process' = <<>>
    /\ fatal' = TRUE
    /\ pc' = "check"
    /\ UNCHANGED crash

\* One pass of the retry loop of the first page (lines 177-190). On success
\* the page is parsed and the page count read (lines 192-193), and the page
\* loop starts: its iteration for page 1 reuses the parsed page (lines
\* 196-200). A RequestException on the last pass returns the empty list; any
\* other exception leaves main().
FirstPageAttempt ==
    /\ pc = "first"
    /\ \E outcome \in Outcomes :
         LET log == walk.log \o Pass(walk.attempt, 1) IN
         CASE outcome = "ok" ->
                \E pager \in ServedPagers :
                  LET total_pages == get_total_pages(pager) IN
                  /\ walk' = [walk EXCEPT !.log = log, !.attempt = 0, !.seen = 0,
                                          !.total_pages = total_pages,
                                          !.page_num = 1]
                  /\ pc' = IF total_pages >= 1 THEN "scan" ELSE "walk"
                  /\ UNCHANGED <<profiles_to_process, fatal, crash>>
           [] IsRequestException(outcome) /\ ~GivesUp(walk.attempt) ->
                /\ walk' = [walk EXCEPT !.log = log, !.attempt = @ + 1]
                /\ UNCHANGED <<pc, profiles_to_process, fatal, crash>>
           [] IsRequestException(outcome) /\ GivesUp(walk.attempt) ->
                FirstPageFailed(log)
           [] outcome = "other" ->
                /\ Crash("listing")
                /\ walk' = [walk EXCEPT !.log = log]
                /\ UNCHANGED <<profiles_to_process, fatal>>
    /\ UNCHANGED <<mode, run, db, listing, existing_ids, known_ids, db0,
                   doctors_to_process, tasks, completed_doctors, saves, warmups>>

\* A give-up that loses the stubs gathered so far.
PageFailed_DropStubs(log) ==
    /\ walk' = [walk EXCEPT !.log = <<>>, !.before = log, !.attempt = 0,
                            !.skipped = @ \cup {walk.page_num},
                            !.page_num = @ + 1]
    /\ doctors_to_process' = <<>>
    /\ UNCHANGED <<pc, crash>>

\* A later page failed on the last pass (lines 216-222): response is None and
\* `continue` goes to the next page.
PageFailed(log) ==
    /\ walk' = [walk EXCEPT !.log = <<>>, !.before = log, !.attempt = 0,
                            !.skipped = @ \cup {walk.page_num},
                            !.page_num = @ + 1]
    /\ UNCHANGED <<pc, crash, doctors_to_process>>

\* One pass of the retry loop of a later page (lines 202-218); on success the
\* page is parsed (line 224); a RequestException on the last pass skips the
\* page with `continue` (lines 220-222), past the courtesy delay.
PageAttempt ==
    /\ pc = "walk"
    /\ walk.page_num >= 2
    /\ walk.page_num <= walk.total_pages
    /\ \E outcome \in Outcomes :
         LET log == walk.log \o Pass(walk.attempt, walk.page_num) IN
         CASE outcome = "ok" ->
                /\ walk' = [walk EXCEPT !.log = log, !.attempt = 0, !.seen = 0]
                /\ pc' = "scan"
                /\ UNCHANGED <<crash, doctors_to_process>>
           [] IsRequestException(outcome) /\ ~GivesUp(walk.attempt) ->
                /\ walk' = [walk EXCEPT !.log = log, !.attempt = @ + 1]
                /\ UNCHANGED <<pc, crash, doctors_to_process>>
           [] IsRequestException(outcome) /\ GivesUp(walk.attempt) ->
                PageFailed(log)
           [] outcome = "other" ->
                /\ Crash("listing")
                /\ walk' = [walk EXCEPT !.log = log]
                /\ UNCHANGED doctors_to_process
    /\ UNCHANGED <<mode, run, db, listing, existing_ids, known_ids, db0,
                   profiles_to_process, tasks, completed_doctors, saves,
                   warmups, fatal>>

\* The extraction loop meets the next announcement of the page (lines
\* 228-241); int() raising on its id leaves main().
ScanBlock ==
    /\ pc = "scan"
    /\ \E block \in NextBlocks(walk.page_num, walk.seen) :
         IF ~IdParses(block)
         THEN /\ Crash("extract")
              /\ UNCHANGED <<existing_ids, doctors_to_process, walk>>
         ELSE LET got == ExtractBlock(block, existing_ids, doctors_to_process) IN
              /\ existing_ids' = got.existing_ids
              /\ doctors_to_process' = got.doctors
              /\ walk' = [walk EXCEPT
                     !.seen = @ + 1,
                     !.announced = IF Truthy(block.url)
                                   THEN @ \cup {int(block.result_id)} ELSE @,
                     !.repeated = IF int(block.result_id) \in walk.announced
                                  THEN @ \cup {int(block.result_id)} ELSE @]
              /\ UNCHANGED <<pc, crash>>
    /\ UNCHANGED <<mode, run, db, listing, known_ids, db0, profiles_to_process,
                   tasks, completed_doctors, saves, warmups, fatal>>

\* The page has no further announcement: before any page but the last the
\* courtesy delay is slept (lines 243-244), and the loop goes on.
EndPage ==
    /\ pc = "scan"
    /\ PageEnds(walk.page_num, walk.seen)
    /\ walk' = [walk EXCEPT
           !.before = IF walk.page_num < walk.total_pages
                      THEN Append(walk.log, Slept(PAGE_DELAY_SECONDS)) ELSE walk.log,
           !.log = <<>>,
           !.seen = 0,
           !.page_num = @ + 1]
    /\ pc' = "walk"
    /\ UNCHANGED <<mode, run, db, listing, existing_ids, known_ids, db0,
                   doctors_to_process, profiles_to_process, tasks,
                   completed_doctors, saves, warmups, fatal, crash>>

\* The page loop is over: return doctors_to_process (line 246).
WalkReturn ==
    /\ pc = "walk"
    /\ walk.page_num > walk.total_pages
    /\ profiles_to_process' = doctors_to_process
    /\ doctors_to_process' = <<>>
    /\ walk' = NoWalk
    /\ pc' = "check"
    /\ UNCHANGED <<mode, run, db, listing, existing_ids, known_ids, db0, tasks,
                   completed_doctors, saves, warmups, fatal, crash>>

\* ------------------------------------------------------------ the detail pool
\* The future of work item i: st is the position of its call of
\* fetch_profile_details(), attempt and log belong to the call's retry loop,
\* failed tells that the loop gave up ("Falha definitiva" was logged), stub
\* is the entry of the work list as it was submitted.
Future(stub, st, attempt, log, failed) ==
    [stub |-> stub, st |-> st, attempt |-> attempt, log |-> log, failed |-> failed]

\* A future not yet picked up by a worker thread.
Queued(stub) == Future(stub, "queued", 0, <<>>, FALSE)

\* Lines 330-338: an empty work list ends the run (lines 330-332); otherwise
\* the dict comprehension of line 338 calls executor.submit() for the next
\* entry of the work list. The worker threads run between two such calls;
\* after the last one main() enters the as_completed() loop.
Submit ==
    /\ pc \in {"check", "submit"}
    /\ IF profiles_to_process = <<>>
       THEN pc' = "done" /\ tasks' = tasks
       ELSE LET k == Len(tasks) + 1 IN
            /\ pc' = IF k = Len(profiles_to_process) THEN "pool" ELSE "submit"
            /\ tasks' = Append(tasks, Queued(profiles_to_process[k]))
    /\ UNCHANGED <<mode, run, db, listing, existing_ids, known_ids, db0,
                   doctors_to_process, walk, profiles_to_process,
                   completed_doctors, saves, warmups, fatal, crash>>

\* The futures whose call a worker thread is executing.
InFlight ==
    {k \in DOMAIN tasks : tasks[k].st \in {"running", "responded", "exhausted"}}

\* The executor exists: main() is submitting or collecting.
PoolOpen == pc \in {"submit", "pool"}

\* The call of work item i is in a retry pass (attempt > 0) whose backoff
\* sleep has not been taken: the last event of its history is a request.
SleepDue(i) ==
    /\ tasks[i].attempt > 0
    /\ tasks[i].log[Len(tasks[i].log)].op = "get"

\* A free worker thread takes the oldest queued future.
Start(i) ==
    /\ PoolOpen
    /\ tasks[i].st = "queued"
    /\ \A k \in 1..(i - 1) : tasks[k].st # "queued"
    /\ Cardinality(InFlight) < MAX_WORKERS
    /\ tasks' = [tasks EXCEPT ![i].st = "running"]
    /\ UNCHANGED <<mode, run, pc, db, listing, existing_ids, known_ids, db0,
                   doctors_to_process, walk, profiles_to_process,
                   completed_doctors, saves, warmups, fatal, crash>>

\* The backoff sleep of a retry pass of fetch_profile_details() for work
\* item i (lines 258-261), taken on the worker thread before the request.
BackoffSleep(i) ==
    /\ PoolOpen
    /\ tasks[i].st = "running"
    /\ SleepDue(i)
    /\ tasks' = [tasks EXCEPT ![i].log = Append(@, Slept(Backoff(tasks[i].attempt)))]
    /\ UNCHANGED <<mode, run, pc, db, listing, existing_ids, known_ids, db0,
                   doctors_to_process, walk, profiles_to_process,
                   completed_doctors, saves, warmups, fatal, crash>>

\* The request of one pass of the retry loop of fetch_profile_details() for
\* work item i (lines 262-268): success leaves the loop with the response, a
\* RequestException on the last pass leaves it with response = None, and an
\* exception that is no RequestException leaves the call and is kept by the
\* future.
DetailAttempt(i) ==
    /\ PoolOpen
    /\ tasks[i].st = "running"
    /\ ~SleepDue(i)
    /\ \E outcome \in Outcomes :
         LET log == Append(tasks[i].log, Got(profiles_to_process[i].id)) IN
         CASE outcome = "ok" ->
                tasks' = [tasks EXCEPT ![i].log = log, ![i].st = "responded"]
           [] IsRequestException(outcome) /\ ~GivesUp(tasks[i].attempt) ->
                tasks' = [tasks EXCEPT ![i].log = log, ![i].attempt = @ + 1]
           [] IsRequestException(outcome) /\ GivesUp(tasks[i].attempt) ->
                tasks' = [tasks EXCEPT ![i].log = log, ![i].st = "exhausted",
                                       ![i].failed = TRUE]
           [] outcome = "other" ->
                tasks' = [tasks EXCEPT ![i] = Future(@.stub, "raised", 0, <<>>, FALSE)]
    /\ UNCHANGED <<mode, run, pc, db, listing, existing_ids, known_ids, db0,
                   doctors_to_process, walk, profiles_to_process,
                   completed_doctors, saves, warmups, fatal, crash>>

\* Workers that all write their fields into the first record of the list.
ReturnDetail_SharedRecord(i) ==
    /\ PoolOpen
    /\ tasks[i].st \in {"responded", "exhausted"}
    /\ \E body \in DetailBodies, fault \in Faults :
         LET fields == IF tasks[i].st = "responded"
                       THEN ParseProfile(body, fault) ELSE Degraded
         IN profiles_to_process' =
                [profiles_to_process EXCEPT ![1] = Update(@, fields)]
    /\ tasks' = [tasks EXCEPT ![i] = Future(@.stub, "finished", 0, <<>>, @.failed)]
    /\ UNCHANGED <<mode, run, pc, db, listing, existing_ids, known_ids, db0,
                   doctors_to_process, walk, completed_doctors, saves, warmups,
                   fatal, crash>>

\* The rest of the call after the retry loop (lines 270-302): the response,
\* if there is one, is parsed inside try/except; the three fields are written
\* into the stub's dictionary, which is returned.
ReturnDetail(i) ==
    /\ PoolOpen
    /\ tasks[i].st \in {"responded", "exhausted"}
    /\ \E body \in DetailBodies, fault \in Faults :
         LET fields == IF tasks[i].st = "responded"
                       THEN ParseProfile(body, fault) ELSE Degraded
         IN profiles_to_process' =
                [profiles_to_process EXCEPT ![i] = Update(@, fields)]
    /\ tasks' = [tasks EXCEPT ![i] = Future(@.stub, "finished", 0, <<>>, @.failed)]
    /\ UNCHANGED <<mode, run, pc, db, listing, existing_ids, known_ids, db0,
                   doctors_to_process, walk, completed_doctors, saves, warmups,
                   fatal, crash>>

\* A collection loop that leaves out the records whose fetch gave up.
Collect_DropFailed(i) ==
    /\ pc = "pool"
    /\ tasks[i].st \in {"finished", "raised"}
    /\ completed_doctors' =
         IF tasks[i].st = "finished" /\ ~tasks[i].failed
         THEN Append(completed_doctors, profiles_to_process[i])
         ELSE completed_doctors
    /\ tasks' = [tasks EXCEPT ![i].st = "collected"]
    /\ UNCHANGED <<mode, run, pc, db, listing, existing_ids, known_ids, db0,
                   doctors_to_process, walk, profiles_to_process, saves, warmups,
                   fatal, crash>>

\* One iteration of the as_completed() loop (lines 340-347): the result of a
\* future that returned is appended; the exception of one that raised is
\* logged.
Collect(i) ==
    /\ pc = "pool"
    /\ tasks[i].st \in {"finished", "raised"}
    /\ completed_doctors' =
         IF tasks[i].st = "finished"
         THEN Append(completed_doctors, profiles_to_process[i])
         ELSE completed_doctors
    /\ tasks' = [tasks EXCEPT ![i].st = "collected"]
    /\ UNCHANGED <<mode, run, pc, db, listing, existing_ids, known_ids, db0,
                   doctors_to_process, walk, profiles_to_process, saves, warmups,
                   fatal, crash>>

\* save_to_database(): nothing for an empty batch; otherwise the batch is
\* upserted in one transaction, and a sqlite3.Error is raised again.
save_to_database(table, doctors_data, error) ==
    IF doctors_data = <<>> \/ error THEN table ELSE ExecuteMany(table, doctors_data)

\* A save that does not wait for the futures still running.
Finish_NoJoin ==
    /\ pc = "pool"
    /\ \E k \in DOMAIN tasks : tasks[k].st = "collected"
    /\ IF completed_doctors = <<>>
       THEN /\ pc' = "done"
            /\ UNCHANGED <<db, saves, crash>>
       ELSE \E error \in BOOLEAN :
            /\ db' = save_to_database(db, completed_doctors, error)
            /\ saves' = saves + 1
            /\ IF error THEN Crash("save") ELSE pc' = "done" /\ crash' = crash
    /\ UNCHANGED <<mode, run, listing, existing_ids, known_ids, db0,
                   doctors_to_process, walk, profiles_to_process, tasks,
                   completed_doctors, warmups, fatal>>

\* Lines 348-352: every future has been collected, the executor and the
\* session are closed, and the collected records, if any, are saved.
Finish ==
    /\ pc = "pool"
    /\ \A k \in DOMAIN tasks : tasks[k].st = "collected"
    /\ IF completed_doctors = <<>>
       THEN /\ pc' = "done"
            /\ UNCHANGED <<db, saves, crash>>
       ELSE \E error \in BOOLEAN :
            /\ db' = save_to_database(db, completed_doctors, error)
            /\ saves' = saves + 1
            /\ IF error THEN Crash("save") ELSE pc' = "done" /\ crash' = crash
    /\ UNCHANGED <<mode, run, listing, existing_ids, known_ids, db0,
                   doctors_to_process, walk, profiles_to_process, tasks,
                   completed_doctors, warmups, fatal>>

\* ------------------------------------------------------- the specifications
\* One run of main().
Next ==
    \/ SetupDatabase
    \/ WarmUp
    \/ LoadNew
    \/ LoadUpdate
    \/ FirstPageAttempt
    \/ PageAttempt
    \/ ScanBlock
    \/ EndPage
    \/ WalkReturn
    \/ Submit
    \/ \E i \in DOMAIN tasks : Start(i)
    \/ \E i \in DOMAIN tasks : BackoffSleep(i)
    \/ \E i \in DOMAIN tasks : DetailAttempt(i)
    \/ \E i \in DOMAIN tasks : ReturnDetail(i)
    \/ \E i \in DOMAIN tasks : Collect(i)
    \/ Finish

Spec == Init /\ [][Next]_vars

\* One run in which every request returns or raises and every thread that
\* can take a step eventually takes one.
FairSpec == Spec /\ WF_vars(Next)

\* Two runs of main() in mode 'new', one after the other, against an
\* upstream whose listing does not change: the second run starts when main()
\* of the first has returned, with the table as the first left it and
\* nothing else.
Announcement(id, url) ==
    [result_id |-> Text(id), result_name |-> " Ana ", url |-> url]

\* The pages of an unchanging listing: empty; one record; one record
\* announced twice; a record without profile reference and one whose profile
\* reference is that of record 1.
FrozenPages ==
    {<<>>,
     <<Announcement(1, Url(1))>>,
     <<Announcement(2, Url(2)), Announcement(2, Url(2))>>,
     <<Announcement(1, None), Announcement(2, Url(1))>>}

FrozenPagers ==
    {NoPager,
     [present |-> TRUE, labels |-> {"next"} \cup {Text(n) : n \in 1..MaxPages}]}

FrozenListings ==
    {[fixed |-> TRUE, pager |-> pager, pages |-> pages] :
        pager \in FrozenPagers, pages \in [1..MaxPages -> FrozenPages]}

InitTwoRuns ==
    /\ mode = "new"
    /\ run = 1
    /\ pc = "setup"
    /\ db \in Tables
    /\ db0 = db
    /\ listing \in FrozenListings
    /\ existing_ids = {}
    /\ known_ids = {}
    /\ doctors_to_process = <<>>
    /\ walk = NoWalk
    /\ profiles_to_process = <<>>
    /\ tasks = <<>>
    /\ completed_doctors = <<>>
    /\ saves = 0
    /\ warmups = 0
    /\ fatal = FALSE
    /\ crash = ""

\* main() of the first run has returned; main() is started again.
Restart ==
    /\ run = 1
    /\ pc = "done"
    /\ run' = 2
    /\ db0' = db
    /\ FreshRun
    /\ UNCHANGED <<mode, db, listing>>

NextTwoRuns ==
    \/ SetupDatabase
    \/ WarmUp
    \/ LoadNew
    \/ FirstPageAttempt
    \/ PageAttempt
    \/ ScanBlock
    \/ EndPage
    \/ WalkReturn
    \/ Submit
    \/ \E i \in DOMAIN tasks : Start(i)
    \/ \E i \in DOMAIN tasks : BackoffSleep(i)
    \/ \E i \in DOMAIN tasks : DetailAttempt(i)
    \/ \E i \in DOMAIN tasks : ReturnDetail(i)
    \/ \E i \in DOMAIN tasks : Collect(i)
    \/ Finish
    \/ Restart

SpecTwoRuns == InitTwoRuns /\ [][NextTwoRuns]_vars

\* The listing walk of a discovery run, up to its return to main(), over a
\* listing of ListedPages pages, page p announcing record p, whose first page
\* carries any pagination control over the labels "next", "0", "1", ...
\* (main() reads the control of the first page only).
ListedLabels == {"next"} \cup {Text(n) : n \in 0..ListedPages}

ListedPagers ==
    {NoPager} \cup {[present |-> TRUE, labels |-> L] : L \in SUBSET ListedLabels}

InitListing ==
    /\ mode = "new"
    /\ run = 1
    /\ pc = "setup"
    /\ db \in Tables
    /\ db0 = db
    /\ listing \in {[fixed |-> TRUE, pager |-> pager,
                     pages |-> [p \in 1..ListedPages |-> <<Announcement(p, Url(p))>>]] :
                    pager \in ListedPagers}
    /\ existing_ids = {}
    /\ known_ids = {}
    /\ doctors_to_process = <<>>
    /\ walk = NoWalk
    /\ profiles_to_process = <<>>
    /\ tasks = <<>>
    /\ completed_doctors = <<>>
    /\ saves = 0
    /\ warmups = 0
    /\ fatal = FALSE
    /\ crash = ""

NextListing ==
    \/ SetupDatabase
    \/ WarmUp
    \/ LoadNew
    \/ FirstPageAttempt
    \/ PageAttempt
    \/ ScanBlock
    \/ EndPage
    \/ WalkReturn

SpecListing == InitListing /\ [][NextListing]_vars

\* ---------------------------------------------------- notions of the claims
\* The requests and the sleeps of a retry loop's history.
IsGet(e) == e.op = "get"
IsSleep(e) == e.op = "sleep"
Gets(log) == Len(SelectSeq(log, IsGet))
SleptTotal(log) == Sum([k \in DOMAIN SelectSeq(log, IsSleep) |-> SelectSeq(log, IsSleep)[k].arg])

\* The ids of a list of records, and lists in which no id occurs twice.
IdsOf(docs) == {docs[k].id : k \in DOMAIN docs}
DistinctIds(docs) == \A j, k \in DOMAIN docs : docs[j].id = docs[k].id => j = k

\* Every future of a non-empty pool has been collected.
PoolComplete == tasks # <<>> /\ \A k \in DOMAIN tasks : tasks[k].st = "collected"

\* The page loop of the walker is over and it is about to return.
WalkOver == pc = "walk" /\ walk.page_num > walk.total_pages

\* A history in which requests for `what` and sleeps alternate, the k-th
\* sleep being of k base delays.
Alternates(log, what) ==
    \A k \in DOMAIN log :
       IF k % 2 = 1 THEN log[k] = [op |-> "get", arg |-> what]
       ELSE log[k] = [op |-> "sleep", arg |-> RETRY_DELAY_SECONDS * (k \div 2)]

\* A history of n requests for `what` with linear backoff: request, sleep of
\* one base delay, request, sleep of two base delays, request, ...
Linear(log, what) ==
    /\ log # <<>> => Len(log) % 2 = 1
    /\ Alternates(log, what)

\* C1: when the pool completes, the collected list holds exactly one record
\* for every stub of the work list, whatever happened inside the workers
\* (fetch success, retry exhaustion, parse fault, or any other error).
C1_EveryStubCollectedOnce ==
    PoolComplete =>
      /\ Len(completed_doctors) = Len(profiles_to_process)
      /\ \A k \in DOMAIN profiles_to_process :
           Cardinality({j \in DOMAIN completed_doctors :
                          completed_doctors[j].id = profiles_to_process[k].id}) = 1

\* C2: at each of the three retrying call sites a unit whose every attempt
\* fails with a RequestException has been requested exactly MAX_RETRIES + 1 = 4
\* times when its loop gives up, no request for it follows, and a loop's
\* history holds only the requests of its own unit, one per pass.
C2_ExhaustionAfterFourAttempts ==
    /\ fatal =>
         /\ Gets(walk.log) = MAX_RETRIES + 1
         /\ \A k \in DOMAIN walk.log : IsGet(walk.log[k]) => walk.log[k].arg = 1
         /\ ~ENABLED FirstPageAttempt
    /\ pc \in {"walk", "scan"} /\ walk.page_num - 1 \in walk.skipped =>
         /\ Gets(walk.before) = MAX_RETRIES + 1
         /\ \A k \in DOMAIN walk.before :
              IsGet(walk.before[k]) => walk.before[k].arg = walk.page_num - 1
    /\ pc \in {"first", "walk", "scan"} =>
         /\ Gets(walk.log) <= MAX_RETRIES + 1
         /\ \A k \in DOMAIN walk.log :
              IsGet(walk.log[k]) => walk.log[k].arg = IF pc = "first" THEN 1 ELSE walk.page_num
         /\ \A p \in walk.skipped : p < walk.page_num
    /\ \A i \in DOMAIN tasks :
         /\ tasks[i].st = "exhausted" =>
              Gets(tasks[i].log) = MAX_RETRIES + 1 /\ ~ENABLED DetailAttempt(i)
         /\ tasks[i].st = "running" => Gets(tasks[i].log) = tasks[i].attempt
         /\ Gets(tasks[i].log) <= MAX_RETRIES + 1
         /\ \A k \in DOMAIN tasks[i].log :
              IsGet(tasks[i].log[k]) => tasks[i].log[k].arg = tasks[i].stub.id
         /\ tasks[i].failed => ~ENABLED DetailAttempt(i)

\* A detail fetch gave up while another work item did not fail at all.
C2_Witness ==
    \E i, j \in DOMAIN tasks :
       /\ tasks[i].st = "exhausted"
       /\ tasks[j].st = "responded" /\ Gets(tasks[j].log) = 1

\* C3: the sleep before the k-th retry is RETRY_DELAY_SECONDS * k, nothing is
\* slept before the first attempt or after the last one; a unit that succeeds
\* on its third attempt has slept 10 + 20 seconds, and no attempt follows.
C3_LinearBackoff ==
    /\ pc = "first" \/ fatal => Linear(walk.log, 1)
    /\ pc \in {"walk", "scan"} /\ (walk.page_num >= 2 \/ pc = "scan") =>
         Linear(walk.log, walk.page_num)
    /\ pc = "scan" =>
         /\ Gets(walk.log) = 3 =>
              SleptTotal(walk.log) = RETRY_DELAY_SECONDS * 1 + RETRY_DELAY_SECONDS * 2
         /\ ~ENABLED FirstPageAttempt /\ ~ENABLED PageAttempt
    /\ \A i \in DOMAIN tasks :
         /\ Alternates(tasks[i].log, tasks[i].stub.id)
         /\ tasks[i].st \in {"responded", "exhausted"} =>
              Linear(tasks[i].log, tasks[i].stub.id)
         /\ tasks[i].st = "running" =>
              Len(tasks[i].log) \in {2 * tasks[i].attempt - 1, 2 * tasks[i].attempt}
         /\ tasks[i].st = "responded" =>
              /\ Gets(tasks[i].log) = 3 =>
                   SleptTotal(tasks[i].log) =
                       RETRY_DELAY_SECONDS * 1 + RETRY_DELAY_SECONDS * 2
              /\ ~ENABLED DetailAttempt(i) /\ ~ENABLED BackoffSleep(i)
         /\ tasks[i].st = "exhausted" =>
              /\ ~ENABLED BackoffSleep(i)
              /\ SleptTotal(tasks[i].log) = RETRY_DELAY_SECONDS * (1 + 2 + 3)

\* A detail fetch that failed twice and then succeeded.
C3_Witness ==
    \E i \in DOMAIN tasks : tasks[i].st = "responded" /\ Gets(tasks[i].log) = 3

\* C4: in discovery mode no two stubs of the walker's list have the same id
\* and none has an id of the known-id set loaded at run start, also when an
\* id is announced several times.
C4_StubsUniqueAndNew ==
    mode = "new" =>
      /\ DistinctIds(doctors_to_process)
      /\ IdsOf(doctors_to_process) \cap known_ids = {}
      /\ DistinctIds(profiles_to_process)
      /\ IdsOf(profiles_to_process) \cap known_ids = {}

\* The walk is over; an emitted id was announced again, a known id was
\* announced too.
C4_Witness ==
    /\ WalkOver
    /\ walk.repeated \cap IdsOf(doctors_to_process) # {}
    /\ walk.announced \cap known_ids # {}

\* C6: a stub whose detail fetch gave up yields a record with phone,
\* specialization and address None and the stub's id, name and profile
\* reference, and the record is in the pool's output once collected.
C6_DegradedRecord ==
    \A i \in DOMAIN tasks :
       tasks[i].failed /\ tasks[i].st \in {"finished", "collected"} =>
         /\ profiles_to_process[i] =
              [id |-> tasks[i].stub.id, name |-> tasks[i].stub.name,
               profile_url |-> tasks[i].stub.profile_url,
               phone |-> None, specialization |-> None, address |-> None]
         /\ tasks[i].st = "collected" =>
              \E j \in DOMAIN completed_doctors :
                 completed_doctors[j] = profiles_to_process[i]

\* The pool is complete and holds a degraded and an enriched record.
C6_Witness ==
    /\ PoolComplete
    /\ \E i, j \in DOMAIN tasks :
          /\ tasks[i].failed
          /\ ~tasks[j].failed
          /\ "phone" \in DOMAIN profiles_to_process[j]
          /\ profiles_to_process[j].phone # None

\* C7: when every listing page is fetched, the work list of discovery mode is
\* exactly the distinct ids announced with a non-empty profile reference on
\* pages 1..pageCount that are not in the known-id set loaded at run start.
C7_WorkListIsNewAnnounced ==
    WalkOver /\ walk.skipped = {} =>
      /\ IdsOf(doctors_to_process) = walk.announced \ known_ids
      /\ Len(doctors_to_process) = Cardinality(walk.announced \ known_ids)

\* Two pages were walked; some announced ids were known, some were not.
C7_Witness ==
    /\ WalkOver /\ walk.skipped = {} /\ walk.total_pages = 2
    /\ walk.announced \cap known_ids # {}
    /\ doctors_to_process # <<>>

\* C8: when the first search page fails on all 4 attempts, no other listing
\* page and no detail page is requested and nothing is written to storage.
C8_FatalFirstPage ==
    fatal =>
      /\ pc \in {"check", "done"}
      /\ Gets(walk.log) = MAX_RETRIES + 1
      /\ \A k \in DOMAIN walk.log : IsGet(walk.log[k]) => walk.log[k].arg = 1
      /\ walk.before = <<>>
      /\ profiles_to_process = <<>> /\ tasks = <<>> /\ completed_doctors = <<>>
      /\ db = db0 /\ saves = 0
      /\ ~ENABLED PageAttempt
      /\ \A i \in DOMAIN tasks : ~ENABLED DetailAttempt(i)

\* The run ended after a fatal first page, with rows in storage.
C8_Witness == fatal /\ pc = "done" /\ db # {}

\* C9: the batch upsert is invoked at most once, only after every detail task
\* has finished, and exactly when at least one record was collected; with an
\* empty work list neither the pool nor the upsert is invoked.
C9_SingleFinalUpsert ==
    /\ saves <= 1
    /\ saves = 1 => PoolComplete /\ completed_doctors # <<>>
    /\ pc = "done" \/ crash = "save" => (saves = 1 <=> completed_doctors # <<>>)
    /\ pc = "done" /\ profiles_to_process = <<>> =>
         tasks = <<>> /\ saves = 0 /\ db = db0
    /\ pc \in {"setup", "warmup", "load", "first", "walk", "scan", "check", "submit",
             "pool"} =>
         db = db0 /\ saves = 0

\* The run ended with an upsert of records that are all degraded.
C9_Witness ==
    /\ pc = "done" /\ saves = 1
    /\ \A i \in DOMAIN tasks : tasks[i].failed
    /\ Len(tasks) >= 2

\* C10: exactly one warm-up request is sent, before any listing or detail
\* request, it is never retried, and its failure does not stop the run.
C10_WarmUpBestEffort ==
    /\ warmups <= 1
    /\ pc \in {"load", "first", "walk", "scan", "check", "submit", "pool", "done"} =>
         warmups = 1
    /\ pc \in {"setup", "warmup"} => walk = NoWalk /\ tasks = <<>>
    /\ crash # "warmup"

\* The ids an unchanging listing announces with a profile reference on its
\* pages 1..n.
AnnouncedOn(pages, n) ==
    UNION {{int(pages[p][k].result_id) :
               k \in {j \in DOMAIN pages[p] : Truthy(pages[p][j].url)}} :
           p \in 1..n}

\* C5 as stated: the second of two discovery runs against an unchanged
\* listing has an empty work list.
C5_SecondRunEmpty ==
    run = 2 /\ pc = "check" => profiles_to_process = <<>>

\* The ids an unchanging listing announces with a profile reference on the
\* pages its pagination control gives.
Announced == AnnouncedOn(listing.pages, get_total_pages(listing.pager))

\* No profile reference belongs to two ids, over the rows stored at run start
\* and the announcements of every page of an unchanging listing.
UrlsDistinct ==
    LET stored == {[id |-> r.id, url |-> r.profile_url] : r \in db0}
        listed == UNION {{[id |-> int(listing.pages[p][k].result_id),
                           url |-> listing.pages[p][k].url] :
                             k \in {j \in DOMAIN listing.pages[p] :
                                      Truthy(listing.pages[p][j].url)}} :
                         p \in DOMAIN listing.pages}
    IN \A x, y \in stored \cup listed : x.url = y.url => x.id = y.id

\* C5: two discovery runs in succession against an unchanged listing. When
\* main() of the first run returns and no profile reference belongs to two
\* ids, the rows it found in storage and the records it collected are in
\* storage; if it also collected a record for every announced id that was not
\* in its known-id set, every announced id is in storage when the second run
\* starts. The second run's known-id set is the stored ids, or empty when its
\* load fails; when the load did not fail, no stored id is ever in its work
\* list, and if every announced id is stored its work list stays empty and
\* nothing is submitted.
C5_CompleteFirstRunLeavesNothing ==
    /\ [][run = 1 /\ run' = 2 =>
            /\ db0' = db
            /\ UrlsDistinct =>
                 /\ RowIds(db0) \cup IdsOf(completed_doctors) \subseteq RowIds(db0')
                 /\ Announced \ known_ids \subseteq IdsOf(completed_doctors) =>
                      Announced \subseteq RowIds(db0')]_vars
    /\ [](run = 2 /\ pc \notin {"setup", "warmup", "load"} =>
            /\ known_ids \in {RowIds(db0), {}}
            /\ known_ids = RowIds(db0) =>
                 /\ IdsOf(doctors_to_process) \cap RowIds(db0) = {}
                 /\ IdsOf(profiles_to_process) \cap RowIds(db0) = {}
                 /\ Announced \subseteq RowIds(db0) =>
                      /\ doctors_to_process = <<>>
                      /\ profiles_to_process = <<>>
                      /\ tasks = <<>>)

\* The second run walked both pages and found nothing to do: its load gave
\* the stored ids, among them every announced id, one of which the first run
\* stored.
C5_Witness ==
    /\ run = 2 /\ WalkOver /\ walk.skipped = {} /\ walk.total_pages = 2
    /\ doctors_to_process = <<>>
    /\ known_ids = RowIds(db0) /\ Announced # {} /\ Announced \subseteq RowIds(db0)
    /\ \E r \in db : r.name = "Ana" /\ r.id \in Announced

\* The stubs of the rows of a table: id, name and profile reference.
StubsOf(table) ==
    {[id |-> r.id, name |-> r.name, profile_url |-> r.profile_url] : r \in table}

\* C11: in mode 'update' no listing page is requested, and the work list
\* submitted to the pool holds exactly one stub per row stored at run start,
\* with the row's id, name and profile reference (before submission the list
\* is that, or empty after a read error, and an empty list is not submitted).
C11_RefreshWorkListIsStored ==
    mode = "update" =>
      /\ pc \notin {"first", "walk", "scan"}
      /\ walk = NoWalk /\ doctors_to_process = <<>> /\ ~fatal
      /\ ~ENABLED FirstPageAttempt /\ ~ENABLED PageAttempt
      /\ pc = "check" =>
           /\ Range(profiles_to_process) \in {StubsOf(db0), {}}
           /\ DistinctIds(profiles_to_process)
      /\ tasks # <<>> =>
           /\ Len(profiles_to_process) = Cardinality(db0)
           /\ Len(tasks) <= Len(profiles_to_process)
           /\ \A k \in DOMAIN tasks :
                /\ tasks[k].stub \in StubsOf(db0)
                /\ profiles_to_process[k].id = tasks[k].stub.id
           /\ pc # "submit" =>
                /\ {tasks[k].stub : k \in DOMAIN tasks} = StubsOf(db0)
                /\ Len(tasks) = Cardinality(db0)

\* A refresh run submitted the stubs of two stored rows.
C11_Witness ==
    mode = "update" /\ pc = "pool" /\ Len(tasks) = 2 /\ Cardinality(db0) = 2

\* The last entry of a history, if any, is the courtesy delay.
EndsWithPageDelay(log) ==
    log # <<>> /\ log[Len(log)] = Slept(PAGE_DELAY_SECONDS)

\* C13: the page count is the largest numeric label of the pagination
\* control of the first page, non-numeric labels ignored, and 1 when the
\* control is absent or has no numeric label; it is the count of the whole
\* walk, and no page beyond it is requested.
C13_PageCountIsMaxLabel ==
    listing.fixed /\ pc \in {"scan", "walk"} =>
      LET numbers == {n \in 0..(Len(Numeral) - 1) : Text(n) \in listing.pager.labels} IN
      /\ ~listing.pager.present \/ numbers = {} => walk.total_pages = 1
      /\ listing.pager.present /\ numbers # {} =>
           /\ walk.total_pages \in numbers
           /\ \A n \in numbers : n <= walk.total_pages
      /\ \A k \in DOMAIN walk.log :
           IsGet(walk.log[k]) =>
             walk.log[k].arg = 1 \/ walk.log[k].arg <= walk.total_pages
      /\ \A k \in DOMAIN walk.before :
           IsGet(walk.before[k]) =>
             walk.before[k].arg = 1 \/ walk.before[k].arg <= walk.total_pages
      /\ walk.page_num <= walk.total_pages + 1
      /\ walk.page_num > walk.total_pages => ~ENABLED PageAttempt /\ pc = "walk"

\* The control with the labels 1, 2, 3 and next gave three pages, and the
\* walk over them is over.
C13_Witness ==
    /\ listing.fixed /\ WalkOver
    /\ listing.pager.present /\ listing.pager.labels = {"1", "2", "3", "next"}
    /\ walk.total_pages = 3

\* C16: when the handling of a page p < pageCount is over, fetched or
\* skipped, the last thing done before the first request for page p + 1 is
\* the 1-second delay; no delay follows the last page.
C16_DelayAfterEveryPage ==
    pc = "walk" /\ walk.log = <<>> /\ walk.page_num >= 2 =>
      IF walk.page_num <= walk.total_pages
      THEN EndsWithPageDelay(walk.before)
      ELSE ~EndsWithPageDelay(walk.before)

\* C14: a parsing error on a fetched listing page or detail page never ends
\* the run: no exception of the extraction loop leaves main(), and a detail
\* call whose response was received always returns a record.
C14_ParseErrorsOnlyDegrade ==
    /\ crash # "extract"
    /\ \A i \in DOMAIN tasks : tasks[i].st = "responded" => ENABLED ReturnDetail(i)

\* C15: a later page that fails on all 4 attempts contributes no stub, the
\* stubs of the pages before it stay in the walker's list, and the walk goes
\* on to request every page after it up to the page count. (Page p of the
\* listing announces record p.)
C15_SkippedPageOnly ==
    listing.fixed /\ pc = "walk" /\ walk.log = <<>> =>
      /\ IdsOf(doctors_to_process) =
           ((1..(walk.page_num - 1)) \ walk.skipped) \ known_ids
      /\ \A p \in walk.skipped :
           /\ p >= 2 /\ p < walk.page_num
           /\ p = walk.page_num - 1 => Gets(walk.before) = MAX_RETRIES + 1
      /\ walk.page_num <= walk.total_pages =>
           ENABLED PageAttempt /\ ~ENABLED WalkReturn

\* Page 2 of 3 was skipped; the walk is over with the stubs of pages 1 and 3.
C15_Witness ==
    /\ listing.fixed /\ WalkOver
    /\ walk.total_pages = 3 /\ walk.skipped = {2}
    /\ IdsOf(doctors_to_process) = {1, 3}

\* C17: the listing walk and the detail pool are separate phases. No future
\* exists before the walk has returned; the pages are requested one at a
\* time in ascending order; existing_ids changes only in the load and in the
\* extraction loop of the walk, never once futures exist; and a step of the
\* pool changes at most one record of the work list, the one of the worker
\* whose call returns, and the future of no other work item.
C17_WalkThenPool ==
    /\ [](/\ tasks # <<>> =>
               /\ pc \in {"submit", "pool", "done", "crashed"}
               /\ walk = NoWalk /\ doctors_to_process = <<>>
          /\ pc \in {"setup", "warmup", "load", "first", "walk", "scan", "check"} =>
               tasks = <<>> /\ completed_doctors = <<>>
          /\ pc \in {"walk", "scan"} =>
               \A k \in DOMAIN walk.log :
                  IsGet(walk.log[k]) => walk.log[k].arg = walk.page_num)
    /\ [][/\ pc \in {"first", "walk", "scan"} /\ pc' \in {"walk", "scan"} =>
               walk'.page_num \in {walk.page_num, walk.page_num + 1}
          /\ existing_ids' # existing_ids => pc \in {"load", "scan"} /\ tasks = <<>>
          /\ PoolOpen => existing_ids' = existing_ids
          /\ PoolOpen /\ pc' \in {"submit", "pool"} =>
               \A i \in DOMAIN tasks :
                  profiles_to_process'[i] # profiles_to_process[i] =>
                    /\ tasks[i].st \in {"responded", "exhausted"}
                    /\ tasks'[i].st = "finished"
                    /\ \A j \in DOMAIN tasks \ {i} :
                         /\ profiles_to_process'[j] = profiles_to_process[j]
                         /\ tasks'[j] = tasks[j]]_vars

\* A discovery run in its pool phase: the walk added ids to existing_ids,
\* one worker has returned its record and another call is still running.
C17_Witness ==
    /\ mode = "new" /\ pc = "pool" /\ existing_ids # known_ids
    /\ \E i, j \in DOMAIN tasks :
          tasks[i].st = "finished" /\ tasks[j].st = "running"

\* C18: in mode 'update', a stored record whose detail fetch gave up is in
\* the batch, and after the upsert its row has phone, specialization and
\* address NULL in place of the values stored before the run.
C18_RefreshOverwritesWithNulls ==
    mode = "update" /\ pc = "done" /\ saves = 1 =>
      \A i \in DOMAIN tasks :
         tasks[i].failed =>
           /\ \E j \in DOMAIN completed_doctors :
                 completed_doctors[j].id = tasks[i].stub.id
           /\ \E old \in db0 :
                 /\ old.id = tasks[i].stub.id
                 /\ old.phone # None /\ old.specialization # None /\ old.address # None
           /\ {r \in db : r.id = tasks[i].stub.id} =
                {Row(tasks[i].stub.id, tasks[i].stub.name, tasks[i].stub.profile_url,
                     None, None, None)}

\* A refresh run saved its batch; one of two fetches had given up.
C18_Witness ==
    /\ mode = "update" /\ pc = "done" /\ saves = 1
    /\ \E i, j \in DOMAIN tasks : tasks[i].failed /\ ~tasks[j].failed

\* C19: every run ends, by the return of main() or by an exception leaving
\* it, after at most 1 warm-up request, at most MAX_RETRIES + 1 = 4 requests
\* for any listing page and for any stub, and once futures are submitted
\* every one of them is eventually collected.
C19_RunTerminates ==
    /\ <>[](pc \in {"done", "crashed"})
    /\ [](/\ warmups <= 1
          /\ Gets(walk.log) <= MAX_RETRIES + 1
          /\ Gets(walk.before) <= MAX_RETRIES + 1
          /\ \A i \in DOMAIN tasks : Gets(tasks[i].log) <= MAX_RETRIES + 1)
    /\ (tasks # <<>>) ~> PoolComplete

\* A discovery run has returned after a pool in which a fetch gave up after
\* its four requests.
C19_Witness ==
    /\ mode = "new" /\ pc = "done" /\ PoolComplete
    /\ \E i \in DOMAIN tasks : tasks[i].failed

\* C20: a read error of the load does not end the run and leaves what empty
\* storage leaves. In mode 'new' the known-id set is the stored ids or, after
\* an error, empty, and then every id announced with a profile reference is
\* a work item, stored or not. In mode 'update' an empty work list ends the
\* run with no request for a profile and nothing written. An exception
\* leaves main() from the load in no case; a storage error leaves it only
\* from the schema setup, before any request, or from the final save.
C20_LoadErrorIsEmptyStorage ==
    /\ crash \in {"", "setup", "warmup", "listing", "extract", "save"}
    /\ crash = "setup" => warmups = 0 /\ db = db0
    /\ crash = "save" => PoolComplete /\ saves = 1 /\ db = db0
    /\ mode = "new" /\ pc \in {"first", "walk", "scan"} =>
         known_ids \in {RowIds(db0), {}}
    /\ mode = "new" /\ WalkOver /\ walk.skipped = {} /\ known_ids = {} =>
         IdsOf(doctors_to_process) = walk.announced
    /\ mode = "update" /\ pc = "check" =>
         Range(profiles_to_process) \in {StubsOf(db0), {}}
    /\ mode = "update" /\ pc = "done" /\ profiles_to_process = <<>> =>
         /\ tasks = <<>> /\ completed_doctors = <<>>
         /\ walk = NoWalk /\ saves = 0 /\ db = db0

\* The load of a discovery run failed over two stored rows, and a stored id
\* is in the work list again.
C20_Witness ==
    /\ mode = "new" /\ WalkOver /\ walk.skipped = {}
    /\ known_ids = {} /\ Cardinality(db0) = 2
    /\ IdsOf(doctors_to_process) \cap RowIds(db0) # {}

====
